---- MODULE Spec2Model ----
(***************************************************************************)
(* Webhook-driven reconciliation of the "usuarios" table (src/index.js).   *)
(*                                                                         *)
(* The model follows the Stripe webhook route and the three asynchronous   *)
(* handlers it dispatches.  A handler is a task that advances one await    *)
(* at a time, so handlers of different requests interleave at their        *)
(* provider lookups and at their SQL statements.  Time is counted in       *)
(* months, the unit of every DATE_ADD in the source.                       *)
(***************************************************************************)
EXTENDS Integers, Sequences, FiniteSets, TLC

\* ------------------------------------------------------------------ bounds
\* Number of /webhook-stripe requests received in one behaviour.
MaxReq == 2
\* Last value of the database clock NOW().
MaxNow == 1

\* ------------------------------------------------------------- vocabulary
NULL == "NULL"
\* SQL NULL of a TIMESTAMP column.
NullTime == -1
\* SQL NULL of the api_key column (falsy in `if (!apiKey)`).
NoKey == 0
\* The api_key an earlier run of the server issued.
InitialKey == 1

Emails == {"a@x.com"}
Customers == {"cus_A"}
\* stripe.customers.retrieve(customerId).email
CustomerEmail == [c \in Customers |-> "a@x.com"]

\* Plan descriptors the provider can report: subscription.items.data[0].plan
Subscriptions == {"sub_m1", "sub_m3", "sub_y1", "sub_m6", "sub_y2"}
SubscriptionPlan ==
  [s \in Subscriptions |->
     CASE s = "sub_m1" -> [interval |-> "month", interval_count |-> 1]
       [] s = "sub_m3" -> [interval |-> "month", interval_count |-> 3]
       [] s = "sub_y1" -> [interval |-> "year", interval_count |-> 1]
       [] s = "sub_m6" -> [interval |-> "month", interval_count |-> 6]
       [] OTHER -> [interval |-> "year", interval_count |-> 2]]

\* session.metadata.plan as written by /api/create-checkout-session, or NULL
\* when the session carries no metadata.
MetadataPlans == {"Plano Trimestral", "Plano Anual", NULL}

\* event.data.object, reduced to the fields the handlers read.
CheckoutEvents ==
  [type : {"checkout.session.completed"}, email : Emails \cup {NULL},
   customer : Customers, subscription : {NULL}, metadata : MetadataPlans]
InvoiceEvents ==
  [type : {"invoice.paid"}, email : {NULL}, customer : Customers \cup {NULL},
   subscription : Subscriptions \cup {NULL}, metadata : {NULL}]
CancelEvents ==
  [type : {"customer.subscription.deleted"}, email : {NULL},
   customer : Customers \cup {NULL}, subscription : {NULL}, metadata : {NULL}]
OtherEvents ==
  [type : {"charge.succeeded"}, email : {NULL}, customer : {NULL},
   subscription : {NULL}, metadata : {NULL}]
Events == CheckoutEvents \cup InvoiceEvents \cup CancelEvents \cup OtherEvents

VARIABLES
  db,         \* the usuarios table: the rows, by their (unique) email
  now,        \* the database clock NOW(), in months
  nextKey,    \* the next value generateApiKey() returns (keys never repeat)
  tasks,      \* the handler invocations in flight, by request, with their locals
  requests,   \* per /webhook-stripe request: its response and its handler's outcome
  ghost       \* per email: what the last writes to its row were

vars == <<db, now, nextKey, tasks, requests, ghost>>

\* SELECT ... FROM usuarios WHERE email = ? returns a row.
HasRow(table, email) == email \in DOMAIN table

\* ------------------------------------------------------------ SQL and time
\* DATE_ADD(t, INTERVAL n unit), t in months.
DateAdd(t, n, unit) == IF unit = "YEAR" THEN t + 12 * n ELSE t + n

\* A row inserted with its email only: every other column takes the default
\* of CREATE TABLE usuarios.
DefaultRow(email, t) ==
  [email |-> email, nome |-> NULL, stripe_customer_id |-> NULL,
   status |-> "inativo", plano |-> NULL, api_key |-> NoKey,
   data_criacao |-> t, data_assinatura |-> NullTime,
   data_renovacao |-> NullTime, data_modificacao |-> NullTime]

\* INSERT INTO usuarios (...) VALUES (?, ?, 'ativo', ?, ?, NOW(),
\*   DATE_ADD(NOW(), INTERVAL 3 MONTH))
CheckoutInsertRow(email, customerId, planName, apiKey, t) ==
  [DefaultRow(email, t) EXCEPT
     !.stripe_customer_id = customerId, !.status = "ativo", !.plano = planName,
     !.api_key = apiKey, !.data_assinatura = t,
     !.data_renovacao = DateAdd(t, 3, "MONTH")]

\* UPDATE usuarios SET stripe_customer_id = ?, status = 'ativo', plano = ?,
\*   api_key = ?, data_assinatura = NOW(),
\*   data_renovacao = DATE_ADD(NOW(), INTERVAL 3 MONTH) WHERE email = ?
CheckoutUpdateRow(row, customerId, planName, apiKey, t) ==
  [row EXCEPT
     !.stripe_customer_id = customerId, !.status = "ativo", !.plano = planName,
     !.api_key = apiKey, !.data_assinatura = t,
     !.data_renovacao = DateAdd(t, 3, "MONTH")]

\* UPDATE usuarios SET status = 'ativo', plano = ?, data_renovacao =
\*   ${intervalClause}, data_modificacao = NOW() WHERE email = ?
InvoiceUpdateRow(row, planName, n, unit, t) ==
  [row EXCEPT
     !.status = "ativo", !.plano = planName,
     !.data_renovacao = DateAdd(t, n, unit), !.data_modificacao = t]

\* Mutants of the cancellation UPDATE: one that forgets the status, one that
\* also clears the plan and the renewal date.
M_CancelKeepsStatus(row, t) == [row EXCEPT !.data_modificacao = t]

M_CancelClearsPlan(row, t) ==
  [row EXCEPT !.status = "inativo", !.data_modificacao = t, !.plano = NULL,
              !.data_renovacao = NullTime]

\* UPDATE usuarios SET status = 'inativo', data_modificacao = NOW()
\*   WHERE email = ?
CancelUpdateRow(row, t) ==
  [row EXCEPT !.status = "inativo", !.data_modificacao = t]

\* The four statements as the table sees them.  An UPDATE whose WHERE clause
\* matches no row changes nothing and is no error.
SqlCheckoutInsert(table, email, customerId, planName, apiKey, t) ==
  (email :> CheckoutInsertRow(email, customerId, planName, apiKey, t)) @@ table

SqlCheckoutUpdate(table, email, customerId, planName, apiKey, t) ==
  IF HasRow(table, email)
    THEN [table EXCEPT ![email] =
            CheckoutUpdateRow(table[email], customerId, planName, apiKey, t)]
    ELSE table

\* Mutant: the invoice UPDATE as an upsert.
M_InvoiceUpsert(table, email, planName, n, unit, t) ==
  IF HasRow(table, email)
    THEN [table EXCEPT ![email] =
            InvoiceUpdateRow(table[email], planName, n, unit, t)]
    ELSE (email :> InvoiceUpdateRow(DefaultRow(email, t), planName, n, unit, t))
           @@ table

SqlInvoiceUpdate(table, email, planName, n, unit, t) ==
  IF HasRow(table, email)
    THEN [table EXCEPT ![email] =
            InvoiceUpdateRow(table[email], planName, n, unit, t)]
    ELSE table

SqlCancelUpdate(table, email, t) ==
  IF HasRow(table, email)
    THEN [table EXCEPT ![email] = CancelUpdateRow(table[email], t)]
    ELSE table

\* Mutant: every monthly plan taken for the quarterly one.
M_ResolvePlanIgnoresCount(plan) ==
  IF plan.interval = "year"
    THEN [planName |-> "Plano Anual", n |-> 1, unit |-> "YEAR"]
    ELSE IF plan.interval = "month"
      THEN [planName |-> "Plano Trimestral", n |-> 3, unit |-> "MONTH"]
      ELSE [planName |-> "Plano Personalizado", n |-> 1, unit |-> "MONTH"]

\* The plan name and the interval clause handleInvoicePaid derives from
\* subscription.items.data[0].plan.
ResolvePlan(plan) ==
  IF plan.interval = "year"
    THEN [planName |-> "Plano Anual", n |-> 1, unit |-> "YEAR"]
    ELSE IF plan.interval = "month" /\ plan.interval_count = 3
      THEN [planName |-> "Plano Trimestral", n |-> 3, unit |-> "MONTH"]
      ELSE [planName |-> "Plano Personalizado", n |-> 1, unit |-> "MONTH"]

\* const planName = session.metadata ? session.metadata.plan : "desconhecido"
CheckoutPlanName(metadata) == IF metadata = NULL THEN "desconhecido" ELSE metadata

\* Mutant: a new api_key on every checkout.
M_ChooseApiKeyAlwaysFresh(found, rowKey, fresh) == fresh

\* The api_key handleCheckoutSessionCompleted binds to its write: a fresh one
\* when no row was read or the row read has none, else the one read.
ChooseApiKey(found, rowKey, fresh) ==
  IF ~found THEN fresh ELSE IF rowKey = NoKey THEN fresh ELSE rowKey

\* --------------------------------------------------------------- handlers
\* Locals of a handler that has not read or resolved anything yet.
NewTask(ev, pc, outcome) ==
  [ev |-> ev, pc |-> pc, outcome |-> outcome, email |-> NULL,
   planName |-> NULL, n |-> 0, unit |-> NULL, found |-> FALSE,
   apiKey |-> NoKey]

\* The event lacks an identifier its handler reads before anything else:
\* the email of a checkout session, the subscription or the customer of an
\* invoice, the customer of a cancelled subscription.
MissingIdentifier(ev) ==
  \/ ev.type = "checkout.session.completed" /\ ev.email = NULL
  \/ ev.type = "invoice.paid" /\ NULL \in {ev.subscription, ev.customer}
  \/ ev.type = "customer.subscription.deleted" /\ ev.customer = NULL

\* Mutant: the checkout handler without its check of the email.
M_StartTaskNoEmailCheck(ev) ==
  IF ev.type = "checkout.session.completed"
    THEN [NewTask(ev, "select", "pending") EXCEPT
            !.email = ev.email,
            !.planName = CheckoutPlanName(ev.metadata)]
    ELSE IF ev.customer = NULL \/ (ev.type = "invoice.paid" /\ ev.subscription = NULL)
      THEN NewTask(ev, "done", "noop")
      ELSE NewTask(ev, IF ev.type = "invoice.paid" THEN "retrieveSub"
                       ELSE "retrieveCust", "pending")

\* The synchronous prefix of a handler, up to its first await or its early
\* return.
StartTask(ev) ==
  CASE ev.type = "checkout.session.completed" ->
         IF ev.email = NULL
           THEN NewTask(ev, "done", "noop")
           ELSE [NewTask(ev, "select", "pending") EXCEPT
                   !.email = ev.email,
                   !.planName = CheckoutPlanName(ev.metadata)]
    [] ev.type = "invoice.paid" ->
         IF ev.subscription = NULL \/ ev.customer = NULL
           THEN NewTask(ev, "done", "noop")
           ELSE NewTask(ev, "retrieveSub", "pending")
    [] OTHER ->
         IF ev.customer = NULL
           THEN NewTask(ev, "done", "noop")
           ELSE NewTask(ev, "retrieveCust", "pending")

\* ------------------------------------------------------------- middleware
\* Content types of the requests the provider posts to /webhook-stripe.
ContentTypes == {"application/json"}

\* The middleware registered on the application, in registration order, each
\* with the path it is mounted on ("*": every path).
Middlewares ==
  <<[name |-> "cors", path |-> "*"],
    [name |-> "express.json", path |-> "*"],
    [name |-> "bodyParser.raw", path |-> "/webhook-stripe"]>>

\* One middleware applied to a request.  A body parser reads the body only
\* if no parser before it has (req._body) and the content type is the one it
\* takes: express.json leaves the parsed object in req.body, bodyParser.raw
\* the bytes as a Buffer.
ApplyMiddleware(mw, req) ==
  IF mw.path \notin {"*", req.path} \/ req.body # "unread"
       \/ req.contentType # "application/json"
    THEN req
    ELSE IF mw.name = "express.json" THEN [req EXCEPT !.body = "object"]
    ELSE IF mw.name = "bodyParser.raw" THEN [req EXCEPT !.body = "Buffer"]
    ELSE req

RECURSIVE RunMiddlewares(_, _)
RunMiddlewares(mws, req) ==
  IF mws = <<>> THEN req
  ELSE RunMiddlewares(Tail(mws), ApplyMiddleware(Head(mws), req))

\* req.body as the handler of /webhook-stripe hands it to constructEvent.
WebhookBody(contentType) ==
  RunMiddlewares(Middlewares,
                 [path |-> "/webhook-stripe", contentType |-> contentType,
                  body |-> "unread"]).body

HandledTypes == {"checkout.session.completed", "invoice.paid",
                 "customer.subscription.deleted"}

\* Mutant: the switch runs although constructEvent threw.
M_DispatchUnverified(sigOk, ev) == ev.type \in HandledTypes

\* The webhook route calls a handler: constructEvent did not throw and the
\* switch has a case for the event type.
WebhookDispatch(sigOk, ev) == sigOk /\ ev.type \in HandledTypes

\* Mutant: success only for the event types the switch handles.
M_RespondHandledOnly(sigOk, ev) ==
  IF sigOk /\ ev.type \in HandledTypes
    THEN [code |-> 200, body |-> "success"]
    ELSE [code |-> 400, body |-> "Webhook Error"]

\* The response of the webhook route.
WebhookResponse(sigOk, ev) ==
  IF sigOk
    THEN [code |-> 200, body |-> "success"]
    ELSE [code |-> 400, body |-> "Webhook Error"]

\* No event: the value of lastEv before any write.
NoEvent ==
  [type |-> "none", email |-> NULL, customer |-> NULL, subscription |-> NULL,
   metadata |-> NULL]

\* What the row of an email has been through: the kind and the event of the
\* last write a handler applied to it, whether that write replayed the event
\* of the write before it, whether a cancellation was applied since the last
\* checkout, and the time of the last checkout or paid invoice applied; what
\* the email had at start ("none": no row, "nokey": a row without api_key,
\* "key": a row with one), how many rows were ever created for it and which
\* api_keys were ever stored in its row.
NoGhost ==
  [lastWrite |-> "none", lastEv |-> NoEvent, replay |-> FALSE,
   cancelled |-> FALSE, paidAt |-> NullTime,
   start |-> "none", created |-> 0, keys |-> {}]

\* The ghost of an email at start.
GhostAtStart(table, e) ==
  IF ~HasRow(table, e)
    THEN NoGhost
    ELSE [NoGhost EXCEPT
            !.start = IF table[e].api_key = NoKey THEN "nokey" ELSE "key",
            !.created = 1,
            !.keys = {table[e].api_key} \ {NoKey}]

\* The ghost of a row after a write of kind k for event ev at time t.
GhostAfter(g, k, ev, t) ==
  [lastWrite |-> k, lastEv |-> ev, replay |-> (g.lastEv = ev),
   cancelled |-> IF k = "cancel" THEN TRUE
                 ELSE IF k = "checkout" THEN FALSE ELSE g.cancelled,
   paidAt |-> IF k = "cancel" THEN g.paidAt ELSE t,
   start |-> g.start, created |-> g.created, keys |-> g.keys]

\* The ghost of a row after a checkout statement stored api_key key in it,
\* by an INSERT (inserted) or an UPDATE.
GhostStored(g, inserted, key) ==
  [g EXCEPT !.created = IF inserted THEN @ + 1 ELSE @,
            !.keys = @ \cup ({key} \ {NoKey})]

\* Mutant: the email column without its UNIQUE constraint.
M_NoUniqueConstraint(table, email) == FALSE

\* email VARCHAR(255) UNIQUE NOT NULL: an INSERT for an email that has a row
\* is rejected.
UniqueViolation(table, email) == HasRow(table, email)

\* Handler i returns: its success log line ("ok"), its catch block ("error").
Finish(i, outcome) ==
  /\ tasks' = [r \in DOMAIN tasks \ {i} |-> tasks[r]]
  /\ requests' = [requests EXCEPT ![i].outcome = outcome]

TaskIds == DOMAIN tasks
IsCheckout(i) == tasks[i].ev.type = "checkout.session.completed"
IsInvoice(i) == tasks[i].ev.type = "invoice.paid"
IsCancel(i) == tasks[i].ev.type = "customer.subscription.deleted"

\* ------------------------------------------------------------------ Init
\* The table outlives the server (CREATE TABLE IF NOT EXISTS).  At start an
\* email has no row, or a row the handlers did not write (the column defaults,
\* in particular no api_key), or the row an earlier run's checkout left, whose
\* api_key is InitialKey.
InitialRows(e) ==
  {DefaultRow(e, 0),
   CheckoutInsertRow(e, "cus_A", "Plano Trimestral", InitialKey, 0)}

Init ==
  /\ db \in UNION {[S -> UNION {InitialRows(e) : e \in S}] : S \in SUBSET Emails}
  /\ \A e \in DOMAIN db : db[e].email = e
  /\ now = 0
  /\ nextKey = InitialKey + 1
  /\ tasks = <<>>
  /\ requests = <<>>
  /\ ghost = [e \in Emails |-> GhostAtStart(db, e)]

\* ---------------------------------------------------------------- actions
\* app.post("/webhook-stripe"): verify, dispatch, respond.  sigOk is what
\* the provider's constructEvent makes of body, signature header and secret.
Webhook(sigOk, ev) ==
  /\ Len(requests) < MaxReq
  /\ LET r == Len(requests) + 1
         called == WebhookDispatch(sigOk, ev)
         t == StartTask(ev)
         resp == WebhookResponse(sigOk, ev)
     IN /\ tasks' = IF called /\ t.pc # "done" THEN (r :> t) @@ tasks ELSE tasks
        /\ \E ct \in ContentTypes :
             requests' = Append(requests,
                          [payload |-> WebhookBody(ct),
                           verified |-> sigOk,
                           missingId |-> sigOk /\ MissingIdentifier(ev),
                           type |-> IF sigOk THEN ev.type ELSE "unknown",
                           code |-> resp.code, body |-> resp.body,
                           outcome |-> IF called THEN t.outcome ELSE "none"])
  /\ UNCHANGED <<db, now, nextKey, ghost>>

\* handleCheckoutSessionCompleted: the SELECT resolves (or rejects) and the
\* handler binds the parameters of its INSERT or UPDATE.
CheckoutSelect(i, ok) ==
  /\ IsCheckout(i) /\ tasks[i].pc = "select"
  /\ IF ~ok
       THEN Finish(i, "error") /\ UNCHANGED nextKey
       ELSE LET found == HasRow(db, tasks[i].email)
                rowKey == IF found THEN db[tasks[i].email].api_key ELSE NoKey
                key == ChooseApiKey(found, rowKey, nextKey)
            IN /\ tasks' = [tasks EXCEPT ![i].pc = "write", ![i].found = found,
                                         ![i].apiKey = key]
               /\ nextKey' = IF key = nextKey THEN nextKey + 1 ELSE nextKey
               /\ UNCHANGED requests
  /\ UNCHANGED <<db, now, ghost>>

\* Mutant: the statement of the checkout handler takes effect although it
\* fails.
M_CheckoutWriteFailsApplied(i, ok) ==
  /\ IsCheckout(i) /\ tasks[i].pc = "write"
  /\ LET t == tasks[i]
         e == t.email
     IN /\ Finish(i, IF ~ok \/ (~t.found /\ UniqueViolation(db, e))
                       THEN "error" ELSE "ok")
        /\ db' = IF ~t.found
                   THEN SqlCheckoutInsert(db, e, t.ev.customer, t.planName,
                                          t.apiKey, now)
                   ELSE SqlCheckoutUpdate(db, e, t.ev.customer, t.planName,
                                          t.apiKey, now)
        /\ ghost' = IF ~t.found \/ HasRow(db, e)
                      THEN [ghost EXCEPT ![e] =
                              GhostStored(
                                GhostAfter(ghost[e], "checkout", t.ev, now),
                                ~t.found, t.apiKey)]
                      ELSE ghost
  /\ UNCHANGED <<now, nextKey>>

\* handleCheckoutSessionCompleted: the INSERT or UPDATE executes (or fails).
CheckoutWrite(i, ok) ==
  /\ IsCheckout(i) /\ tasks[i].pc = "write"
  /\ LET t == tasks[i]
         e == t.email
     IN IF ~ok \/ (~t.found /\ UniqueViolation(db, e))
          \* a storage error, or the UNIQUE constraint on email
          THEN Finish(i, "error") /\ UNCHANGED <<db, ghost>>
          ELSE /\ Finish(i, "ok")
               /\ db' = IF ~t.found
                          THEN SqlCheckoutInsert(db, e, t.ev.customer, t.planName,
                                                 t.apiKey, now)
                          ELSE SqlCheckoutUpdate(db, e, t.ev.customer, t.planName,
                                                 t.apiKey, now)
               /\ ghost' = IF ~t.found \/ HasRow(db, e)
                             THEN [ghost EXCEPT ![e] =
                                     GhostStored(
                                       GhostAfter(ghost[e], "checkout", t.ev, now),
                                       ~t.found, t.apiKey)]
                             ELSE ghost
  /\ UNCHANGED <<now, nextKey>>

\* handleInvoicePaid: stripe.subscriptions.retrieve resolves or rejects.
InvoiceRetrieveSub(i, ok) ==
  /\ IsInvoice(i) /\ tasks[i].pc = "retrieveSub"
  /\ IF ~ok
       THEN Finish(i, "error")
       ELSE tasks' = [tasks EXCEPT ![i].pc = "retrieveCust"] /\ UNCHANGED requests
  /\ UNCHANGED <<db, now, nextKey, ghost>>

\* handleInvoicePaid: stripe.customers.retrieve resolves or rejects; the
\* handler derives plan name and interval clause and issues its UPDATE.
InvoiceRetrieveCust(i, ok) ==
  /\ IsInvoice(i) /\ tasks[i].pc = "retrieveCust"
  /\ IF ~ok
       THEN Finish(i, "error")
       ELSE LET r == ResolvePlan(SubscriptionPlan[tasks[i].ev.subscription])
            IN /\ tasks' = [tasks EXCEPT
                              ![i].pc = "update",
                              ![i].email = CustomerEmail[tasks[i].ev.customer],
                              ![i].planName = r.planName,
                              ![i].n = r.n, ![i].unit = r.unit]
               /\ UNCHANGED requests
  /\ UNCHANGED <<db, now, nextKey, ghost>>

\* handleInvoicePaid: the UPDATE executes (or fails).
InvoiceUpdate(i, ok) ==
  /\ IsInvoice(i) /\ tasks[i].pc = "update"
  /\ LET t == tasks[i]
         e == t.email
     IN IF ~ok
          THEN Finish(i, "error") /\ UNCHANGED <<db, ghost>>
          ELSE /\ Finish(i, "ok")
               /\ db' = SqlInvoiceUpdate(db, e, t.planName, t.n, t.unit, now)
               /\ ghost' = IF HasRow(db, e)
                             THEN [ghost EXCEPT ![e] =
                                     GhostAfter(ghost[e], "invoice", t.ev, now)]
                             ELSE ghost
  /\ UNCHANGED <<now, nextKey>>

\* handleSubscriptionCanceled: stripe.customers.retrieve resolves or rejects.
CancelRetrieveCust(i, ok) ==
  /\ IsCancel(i) /\ tasks[i].pc = "retrieveCust"
  /\ IF ~ok
       THEN Finish(i, "error")
       ELSE /\ tasks' = [tasks EXCEPT
                           ![i].pc = "update",
                           ![i].email = CustomerEmail[tasks[i].ev.customer]]
            /\ UNCHANGED requests
  /\ UNCHANGED <<db, now, nextKey, ghost>>

\* handleSubscriptionCanceled: the UPDATE executes (or fails).
CancelUpdate(i, ok) ==
  /\ IsCancel(i) /\ tasks[i].pc = "update"
  /\ LET t == tasks[i]
         e == t.email
     IN IF ~ok
          THEN Finish(i, "error") /\ UNCHANGED <<db, ghost>>
          ELSE /\ Finish(i, "ok")
               /\ db' = SqlCancelUpdate(db, e, now)
               /\ ghost' = IF HasRow(db, e)
                             THEN [ghost EXCEPT ![e] =
                                     GhostAfter(ghost[e], "cancel", t.ev, now)]
                             ELSE ghost
  /\ UNCHANGED <<now, nextKey>>

\* The database clock advances.
Tick ==
  /\ now < MaxNow
  /\ now' = now + 1
  /\ UNCHANGED <<db, nextKey, tasks, requests, ghost>>

Next ==
  \/ \E sigOk \in BOOLEAN, ev \in Events : Webhook(sigOk, ev)
  \/ \E i \in TaskIds, ok \in BOOLEAN : CheckoutSelect(i, ok)
  \/ \E i \in TaskIds, ok \in BOOLEAN : CheckoutWrite(i, ok)
  \/ \E i \in TaskIds, ok \in BOOLEAN : InvoiceRetrieveSub(i, ok)
  \/ \E i \in TaskIds, ok \in BOOLEAN : InvoiceRetrieveCust(i, ok)
  \/ \E i \in TaskIds, ok \in BOOLEAN : InvoiceUpdate(i, ok)
  \/ \E i \in TaskIds, ok \in BOOLEAN : CancelRetrieveCust(i, ok)
  \/ \E i \in TaskIds, ok \in BOOLEAN : CancelUpdate(i, ok)
  \/ Tick

Spec == Init /\ [][Next]_vars

\* Events processed in sequence: a request arrives only when no handler is in
\* flight.
NextSeq ==
  \/ \E sigOk \in BOOLEAN, ev \in Events : tasks = <<>> /\ Webhook(sigOk, ev)
  \/ \E i \in TaskIds, ok \in BOOLEAN : CheckoutSelect(i, ok)
  \/ \E i \in TaskIds, ok \in BOOLEAN : CheckoutWrite(i, ok)
  \/ \E i \in TaskIds, ok \in BOOLEAN : InvoiceRetrieveSub(i, ok)
  \/ \E i \in TaskIds, ok \in BOOLEAN : InvoiceRetrieveCust(i, ok)
  \/ \E i \in TaskIds, ok \in BOOLEAN : InvoiceUpdate(i, ok)
  \/ \E i \in TaskIds, ok \in BOOLEAN : CancelRetrieveCust(i, ok)
  \/ \E i \in TaskIds, ok \in BOOLEAN : CancelUpdate(i, ok)
  \/ Tick

SpecSeq == Init /\ [][NextSeq]_vars

\* ------------------------------------------------------- a first purchase
\* What /api/create-checkout-session sells: the plan name it puts in the
\* session's metadata and the subscription its recurring price leads to.
Purchases ==
  {[plan |-> "Plano Trimestral", subscription |-> "sub_m3"],
   [plan |-> "Plano Anual", subscription |-> "sub_y1"]}

\* The two events the provider sends for purchase p: the completed checkout
\* session and the first paid invoice of its subscription.
PurchaseEvents(p) ==
  {ev \in CheckoutEvents :
     ev.email # NULL /\ CustomerEmail[ev.customer] = ev.email
       /\ ev.metadata = p.plan}
  \cup
  {ev \in InvoiceEvents :
     ev.customer # NULL /\ ev.subscription = p.subscription}

\* A customer without a row makes a first purchase; its two events arrive
\* in either order, the second while the handler of the first is in flight.
InitRace == Init /\ DOMAIN db = {}

WebhookRace ==
  \E p \in Purchases : \E ev \in PurchaseEvents(p) :
    /\ \/ requests = <<>>
       \/ /\ Len(requests) = 1 /\ 1 \in DOMAIN tasks
          /\ tasks[1].ev \in PurchaseEvents(p)
          /\ tasks[1].ev.type # ev.type
    /\ Webhook(TRUE, ev)

NextRace ==
  \/ WebhookRace
  \/ \E i \in TaskIds, ok \in BOOLEAN : CheckoutSelect(i, ok)
  \/ \E i \in TaskIds, ok \in BOOLEAN : CheckoutWrite(i, ok)
  \/ \E i \in TaskIds, ok \in BOOLEAN : InvoiceRetrieveSub(i, ok)
  \/ \E i \in TaskIds, ok \in BOOLEAN : InvoiceRetrieveCust(i, ok)
  \/ \E i \in TaskIds, ok \in BOOLEAN : InvoiceUpdate(i, ok)
  \/ Tick

SpecRace == InitRace /\ [][NextRace]_vars

\* ================================================================ claims
\* Handler i returns in this step.
Returns(i) == i \in DOMAIN tasks /\ i \notin DOMAIN tasks'
\* Handler i returns in this step after its INSERT or UPDATE executed.
Applies(i) ==
  /\ Returns(i)
  /\ tasks[i].pc \in {"write", "update"}
  /\ requests'[i].outcome = "ok"
\* The columns that are not timestamps.
Core(row) ==
  [email |-> row.email, stripe_customer_id |-> row.stripe_customer_id,
   status |-> row.status, plano |-> row.plano, api_key |-> row.api_key]

\* C1: a stored non-null api_key is never changed by any step of any handler,
\* in any interleaving (stated as claimed; the code violates it).
C1_TokenNeverChanges ==
  [][\A e \in Emails :
       (HasRow(db, e) /\ db[e].api_key # NoKey)
         => (HasRow(db', e) /\ db'[e].api_key = db[e].api_key)]_vars

\* C2: with events processed in sequence, a checkout write that replays the
\* event of the last write to the row leaves email, customer id, status, plan
\* and api_key as the first processing left them.
C2_CheckoutIdempotent ==
  [][\A i \in DOMAIN tasks :
       (/\ IsCheckout(i) /\ Applies(i)
        /\ ghost[tasks[i].email].lastEv = tasks[i].ev)
         => /\ HasRow(db, tasks[i].email) /\ HasRow(db', tasks[i].email)
            /\ Core(db'[tasks[i].email]) = Core(db[tasks[i].email])]_vars

\* C2 witness: a checkout was applied twice in a row to the same row, which
\* holds an api_key.
C2_Witness ==
  \E e \in Emails :
    /\ HasRow(db, e) /\ db[e].api_key # NoKey
    /\ ghost[e].lastWrite = "checkout" /\ ghost[e].replay
    /\ Len(requests) = 2
    /\ \A r \in DOMAIN requests : requests[r].outcome = "ok"

\* C3: a request whose signature check fails is answered 400, starts no
\* handler, then or later, and leaves the table as it was.
C3_RejectedNoDispatch ==
  [][/\ \A r \in DOMAIN requests' :
          ~requests'[r].verified
            => /\ requests'[r].code = 400
               /\ requests'[r].outcome = "none"
               /\ r \notin DOMAIN tasks'
     /\ (Len(requests') > Len(requests) /\ ~requests'[Len(requests')].verified)
          => (db' = db /\ tasks' = tasks /\ ghost' = ghost)]_vars

\* C3 witness: a rejected request next to a handler in flight and a row.
C3_Witness ==
  /\ \E r \in DOMAIN requests : ~requests[r].verified /\ requests[r].code = 400
  /\ DOMAIN tasks # {}
  /\ DOMAIN db # {}

\* C4: every request whose signature verifies is answered {status:"success"},
\* whatever its event type and whatever its handler's outcome is or will be.
C4_VerifiedAnsweredSuccess ==
  \A r \in DOMAIN requests :
    requests[r].verified
      => (requests[r].code = 200 /\ requests[r].body = "success")

\* C4 witness: answered success, one handler ended in its catch block and one
\* is still in flight with nothing written.
C4_Witness ==
  /\ \E r \in DOMAIN requests :
       /\ requests[r].verified /\ requests[r].body = "success"
       /\ requests[r].outcome = "error"
  /\ \E r \in DOMAIN requests :
       /\ requests[r].verified /\ requests[r].body = "success"
       /\ requests[r].outcome = "pending" /\ r \in DOMAIN tasks
  /\ \A e \in Emails : ghost[e].lastWrite = "none"

\* C5 as claimed: once a cancellation was applied and no checkout since, the
\* row is inactive (the code violates it: a paid invoice activates the row).
C5_InactiveUntilCheckout ==
  \A e \in Emails :
    (HasRow(db, e) /\ ghost[e].cancelled) => db[e].status = "inativo"

\* C5 as amended: once a cancellation was applied and neither a checkout nor
\* a paid invoice since, the row is inactive.
C5_InactiveUntilCheckoutOrInvoice ==
  \A e \in Emails :
    (HasRow(db, e) /\ ghost[e].lastWrite = "cancel") => db[e].status = "inativo"

\* C5 witness: a cancellation applied to a row that had a subscription, then
\* another event processed, and the row is still inactive.
C5_Witness ==
  \E e \in Emails :
    /\ HasRow(db, e) /\ ghost[e].lastWrite = "cancel"
    /\ db[e].plano # NULL /\ db[e].status = "inativo"
    /\ Len(requests) = 2
    /\ requests[1].type = "customer.subscription.deleted"
    /\ requests[1].outcome = "ok"
    /\ requests[2].outcome \in {"ok", "error", "noop"}

\* C6: the cancellation UPDATE sets status to inactive and data_modificacao
\* to NOW(), leaves every other column of the row as it was, and touches no
\* other row.
C6_CancelFrame ==
  [][\A i \in DOMAIN tasks :
       (IsCancel(i) /\ Applies(i) /\ HasRow(db, tasks[i].email))
         => LET e == tasks[i].email
            IN /\ DOMAIN db' = DOMAIN db
               /\ db'[e].status = "inativo"
               /\ db'[e].data_modificacao = now
               /\ db'[e].email = db[e].email
               /\ db'[e].nome = db[e].nome
               /\ db'[e].stripe_customer_id = db[e].stripe_customer_id
               /\ db'[e].plano = db[e].plano
               /\ db'[e].api_key = db[e].api_key
               /\ db'[e].data_criacao = db[e].data_criacao
               /\ db'[e].data_assinatura = db[e].data_assinatura
               /\ db'[e].data_renovacao = db[e].data_renovacao
               /\ \A o \in DOMAIN db \ {e} : db'[o] = db[o]]_vars

\* C6 witness: a cancellation applied, after the clock moved, to a row with a
\* plan, a renewal date and an api_key.
C6_Witness ==
  \E e \in Emails :
    /\ HasRow(db, e) /\ ghost[e].lastWrite = "cancel"
    /\ db[e].status = "inativo" /\ db[e].data_modificacao = 1
    /\ db[e].plano # NULL /\ db[e].api_key # NoKey
    /\ db[e].data_renovacao # NullTime /\ db[e].data_assinatura = 0

\* C7: a row appears only in the step in which a checkout handler's INSERT
\* for that email executes; an invoice or cancellation UPDATE never adds one.
C7_CreatedOnlyByCheckout ==
  [][\A e \in Emails :
       (~HasRow(db, e) /\ HasRow(db', e))
         => \E i \in DOMAIN tasks :
              IsCheckout(i) /\ Applies(i) /\ tasks[i].email = e]_vars

\* C7 witness: a paid invoice and a cancellation both ran to their end for an
\* email without a row, and the table is still empty.
C7_Witness ==
  /\ DOMAIN db = {}
  /\ \E r \in DOMAIN requests :
       requests[r].type = "invoice.paid" /\ requests[r].outcome = "ok"
  /\ \E r \in DOMAIN requests :
       requests[r].type = "customer.subscription.deleted"
         /\ requests[r].outcome = "ok"

\* The plan descriptor of the invoice handler i works on.
PlanOf(i) == SubscriptionPlan[tasks[i].ev.subscription]
IsPlan(i, interval, count) ==
  PlanOf(i).interval = interval /\ PlanOf(i).interval_count = count

\* C8: an invoice UPDATE for month/3 stores "Plano Trimestral" and NOW() + 3
\* months, for year/1 "Plano Anual" and NOW() + 12 months, for month/1 the
\* generic plan and NOW() + 1 month.
C8_KnownPlans ==
  [][\A i \in DOMAIN tasks :
       (IsInvoice(i) /\ Applies(i) /\ HasRow(db, tasks[i].email))
         => LET row == db'[tasks[i].email]
            IN /\ IsPlan(i, "month", 3)
                    => (row.plano = "Plano Trimestral"
                          /\ row.data_renovacao = now + 3)
               /\ IsPlan(i, "year", 1)
                    => (row.plano = "Plano Anual"
                          /\ row.data_renovacao = now + 12)
               /\ IsPlan(i, "month", 1)
                    => (row.plano = "Plano Personalizado"
                          /\ row.data_renovacao = now + 1)]_vars

\* C8 witness: the invoice of an annual subscription applied after the clock
\* moved.
C8_Witness ==
  \E e \in Emails :
    /\ HasRow(db, e) /\ ghost[e].lastWrite = "invoice"
    /\ ghost[e].lastEv.subscription = "sub_y1"
    /\ ghost[e].paidAt = 1
    /\ db[e].plano = "Plano Anual" /\ db[e].data_renovacao = 13

\* C9 as claimed: an invoice UPDATE for any other descriptor stores the
\* generic plan and NOW() + interval_count x interval (the code violates it).
C9_OtherPlans ==
  [][\A i \in DOMAIN tasks :
       (/\ IsInvoice(i) /\ Applies(i) /\ HasRow(db, tasks[i].email)
        /\ ~IsPlan(i, "month", 1) /\ ~IsPlan(i, "month", 3)
        /\ ~IsPlan(i, "year", 1))
         => LET row == db'[tasks[i].email]
                months == IF PlanOf(i).interval = "year"
                            THEN 12 * PlanOf(i).interval_count
                            ELSE PlanOf(i).interval_count
            IN /\ row.plano = "Plano Personalizado"
               /\ row.data_renovacao = now + months]_vars

\* C10 as claimed: a row that holds "Plano Trimestral" or "Plano Anual" has
\* its renewal date 3 or 12 months after its last checkout or paid invoice
\* (the code violates it).
C10_RenewalMatchesPlan ==
  \A e \in Emails :
    (HasRow(db, e) /\ ghost[e].paidAt # NullTime)
      => /\ db[e].plano = "Plano Trimestral"
              => db[e].data_renovacao = ghost[e].paidAt + 3
         /\ db[e].plano = "Plano Anual"
              => db[e].data_renovacao = ghost[e].paidAt + 12

\* C11: no email ever has more than one row created for it, and an email that
\* had no row at start never has more than one api_key stored, also when two
\* checkout handlers both read "no row" before either writes.
C11_OneRowOneToken ==
  \A e \in Emails :
    /\ ghost[e].created <= 1
    /\ ghost[e].start = "none" => Cardinality(ghost[e].keys) <= 1

\* C11 witness: two checkout handlers for an unknown email both read "no row"
\* (each generated a key); one INSERT created the row, the other was rejected.
C11_Witness ==
  \E e \in Emails :
    /\ ghost[e].start = "none" /\ HasRow(db, e) /\ ghost[e].created = 1
    /\ nextKey = InitialKey + 3
    /\ Len(requests) = 2 /\ DOMAIN tasks = {}
    /\ \A r \in DOMAIN requests : requests[r].type = "checkout.session.completed"
    /\ {requests[r].outcome : r \in DOMAIN requests} = {"ok", "error"}

\* C12 as claimed: a checkout with an email stores status active, the
\* session's plan label and customer id, NOW() as data_assinatura and NOW() +
\* 3 months as data_renovacao whatever the plan; the api_key is a new one when
\* there is no row (or the row has none) and the row's own otherwise (holds
\* with events processed in sequence; overlapping handlers violate it).
C12_CheckoutEffect ==
  [][\A i \in DOMAIN tasks :
       (IsCheckout(i) /\ Applies(i))
         => LET e == tasks[i].email
                ev == tasks[i].ev
                label == IF ev.metadata = NULL THEN "desconhecido" ELSE ev.metadata
                row == db'[e]
            IN /\ HasRow(db', e)
               /\ row.email = e
               /\ row.status = "ativo"
               /\ row.plano = label
               /\ row.stripe_customer_id = ev.customer
               /\ row.data_assinatura = now
               /\ row.data_renovacao = now + 3
               /\ row.api_key # NoKey
               /\ IF HasRow(db, e) /\ db[e].api_key # NoKey
                    THEN row.api_key = db[e].api_key
                    ELSE row.api_key \notin ghost[e].keys \cup {InitialKey}
               /\ ~HasRow(db, e) => row.data_modificacao = NullTime]_vars

\* C13 as claimed: every statement a handler applies to a row that exists
\* sets data_modificacao to NOW(), and the INSERT leaves it unset (the code
\* violates it: the checkout UPDATE does not assign the column).
C13_ModifiedOnEveryWrite ==
  [][\A i \in DOMAIN tasks :
       Applies(i)
         => LET e == tasks[i].email
            IN /\ HasRow(db, e) => db'[e].data_modificacao = now
               /\ (~HasRow(db, e) /\ HasRow(db', e))
                    => db'[e].data_modificacao = NullTime]_vars

\* C14 as claimed: an invoice handler whose UPDATE runs for an email without
\* a row ends in its error outcome and creates no row (the code violates it:
\* the handler ends in its success outcome).
C14_InvoiceWithoutRowIsError ==
  [][\A i \in DOMAIN tasks :
       (/\ IsInvoice(i) /\ Returns(i) /\ tasks[i].pc = "update"
        /\ ~HasRow(db, tasks[i].email))
         => /\ requests'[i].outcome = "error"
            /\ ~HasRow(db', tasks[i].email)]_vars

\* C15 as claimed: the body the webhook handler hands to signature
\* verification is the raw bytes of the request, parsed by no middleware (the
\* code violates it: express.json is registered before bodyParser.raw).
C15_RawBodyVerified ==
  \A r \in DOMAIN requests : requests[r].payload = "Buffer"

\* C16 as claimed: a row that exists with a NULL api_key gets at most one
\* generated key stored in it, however the checkout handlers for its email
\* overlap (the code violates it: two handlers that both read the NULL key
\* each generate a key, and the second UPDATE replaces the first's).
C16_NullTokenSetOnce ==
  \A e \in Emails :
    ghost[e].start = "nokey" => Cardinality(ghost[e].keys) <= 1

\* C17: a verified event that lacks its identifier (a checkout without
\* email, an invoice without subscription or customer, a cancellation
\* without customer) is a no-op: its handler returns before its first
\* lookup or statement, so the request is never in flight, and no row changes.
C17_MissingIdentifierNoop ==
  [][\A r \in DOMAIN requests' :
       (requests'[r].verified /\ requests'[r].missingId) =>
         /\ requests'[r].outcome = "noop"
         /\ r \notin DOMAIN tasks'
         /\ r \notin DOMAIN requests => (db' = db /\ nextKey' = nextKey)]_vars

C17_Witness ==
  /\ Len(requests) = 2
  /\ \A r \in DOMAIN requests :
       requests[r].verified /\ requests[r].missingId
         /\ requests[r].outcome = "noop"
  /\ requests[1].type = "checkout.session.completed"
  /\ requests[2].type = "invoice.paid"
  /\ DOMAIN db # {}

\* C18: a handler whose lookup or statement fails returns through its catch
\* block and the table is as it was; the table changes only in the step in
\* which a handler's statement executed, so a handler that fails has changed
\* nothing before; and a request that arrives after a failure is verified
\* and dispatched like any other.
C18_FailureCaughtStoreKept ==
  [][/\ \A i \in DOMAIN tasks :
          (Returns(i) /\ ~Applies(i))
            => (requests'[i].outcome = "error" /\ db' = db)
     /\ db' # db => \E i \in DOMAIN tasks : Applies(i)
     /\ \A r \in DOMAIN requests' \ DOMAIN requests :
          (\E q \in DOMAIN requests : requests[q].outcome = "error")
            => /\ requests'[r].verified => requests'[r].code = 200
               /\ (/\ requests'[r].verified
                   /\ requests'[r].type \in HandledTypes
                   /\ ~requests'[r].missingId) => r \in DOMAIN tasks']_vars

\* C18 witness: the first event's handler ended in its catch block, the
\* second event's handler wrote the row, and the row is the second's.
C18_Witness ==
  /\ Len(requests) = 2
  /\ requests[1].outcome = "error" /\ requests[2].outcome = "ok"
  /\ requests[1].type = "checkout.session.completed"
  /\ requests[2].type = "invoice.paid"
  /\ \E e \in Emails :
       HasRow(db, e) /\ ghost[e].lastWrite = "invoice" /\ ghost[e].start # "none"
         /\ ghost[e].created = 1 /\ db[e].data_modificacao = now

\* What processing the checkout of purchase p and then its invoice leaves in
\* the row: status, plan and the months from the last write to the renewal.
SequentialResult(p) ==
  LET r == ResolvePlan(SubscriptionPlan[p.subscription])
  IN <<"ativo", r.planName, DateAdd(0, r.n, r.unit)>>

\* C19 as claimed: when the checkout and the first invoice of a first
\* purchase were both in flight and both handlers have returned without
\* error, the row has the status, plan and renewal interval that the checkout
\* followed by the invoice leaves (the code violates it: an invoice UPDATE
\* that executes before the checkout INSERT matches no row).
C19_RaceEndsAsSequence ==
  (/\ Len(requests) = 2 /\ DOMAIN tasks = {}
   /\ \A r \in DOMAIN requests : requests[r].outcome = "ok")
    => \A e \in Emails :
         /\ HasRow(db, e)
         /\ \E p \in Purchases :
              /\ ghost[e].lastEv \in PurchaseEvents(p)
              /\ <<db[e].status, db[e].plano,
                   db[e].data_renovacao - ghost[e].paidAt>> = SequentialResult(p)

====
